---- MODULE Spec2Model ----
(***************************************************************************)
(* TrendX aggregation core: Deduplicator, TrendScorer and TrendAggregator  *)
(* (src/trendx/aggregator), and the hourly job and the post queue of       *)
(* TrendScheduler (src/trendx/scheduler).                                  *)
(*                                                                         *)
(* Text is a sequence of one-character strings.  Floating point numbers    *)
(* are exact rationals: sub-scores are integers in units of 1/2300, raw    *)
(* scores in units of 1/23000, normalized scores are fractions num/den.    *)
(* Time is counted in whole hours.                                         *)
(***************************************************************************)
EXTENDS Integers, Sequences, FiniteSets, TLC

VARIABLES
    seen_hashes,      \* Deduplicator.seen_hashes (the persistent set)
    now,              \* the clock read by datetime.utcnow(), in hours
    dd_op,            \* last Deduplicator method called on the instance
    dd_in,            \* argument of the last deduplicate call
    dd_out,           \* value returned by the last deduplicate call
    dd_seen_before,   \* seen_hashes when the last deduplicate call started
    dd_again,         \* the last deduplicate call was given the list the call
                      \* before it had returned
    dd_clear_between, \* clear_cache was called between those two calls
    hist_fps,         \* fingerprints of all records passed since the last clear
    hist_fps_before,  \* hist_fps when the last deduplicate call started
    hist_keys_before, \* (normalized title, url) of the records passed before it
    hist_keys,        \* (normalized title, url) of all records passed since clear
    emitted,          \* fingerprints emitted since the last clear
    emitted_again,    \* fingerprints emitted more than once since the last clear
    scorer_sources,   \* TrendScorer.sources: the authority score of each adapter
    sc_op,            \* last TrendScorer method called
    sc_in,            \* argument of the last calculate_scores call
    sc_clock,         \* the clock readings of that call, one for each record
    sc_raw,           \* the scores of the records before _normalize_scores ran
    sc_out,           \* value returned by the last calculate_scores call
    pc,               \* where aggregate_trends stands
    limit,            \* aggregate_trends: the argument limit
    src_idx,          \* aggregate_trends: position of the loop in self.sources
    all_items,        \* aggregate_trends: all_items
    unique_items,     \* aggregate_trends: unique_items
    scored_items,     \* aggregate_trends: scored_items
    top_items,        \* aggregate_trends: the list returned
    fetched,          \* what each fetch_trends of this cycle did
    prev_raised,      \* the sources whose fetch raised in the cycle before
    returned_fps,     \* fingerprints of the records aggregate_trends has returned
    call_pc,          \* deduplicate run record by record: where each caller stands
    call_items,       \* ... its argument items
    call_pos,         \* ... the position of its loop in items
    call_unique_items,\* ... its local unique_items
    call_seen_hashes, \* ... its local seen_hashes
    call_overlapped,  \* ... its call was in its loop while another call was
    sched_started,    \* TrendScheduler: start() has added the jobs
    job_instances,    \* ... the running instances of each job, each at its step
    job_skipped,      \* ... the run times of each job that started no instance
    wall_hour,        \* the hour of the day datetime.now() gives
    probe_op,         \* "init" until _calculate_item_score is called directly
    probe_item,       \* argument of the last _calculate_item_score call
    probe_clock,      \* the clock reading of that call
    probe_sources,    \* the source map of the scorer that was called
    probe_locals,     \* the sub-scores and the score of that call
    co_pc,            \* aggregate_trends coroutines on one loop: where each stands
    co_idx,           \* ... the position of its loop in self.sources
    co_all_items,     \* ... its all_items
    co_top_items,     \* ... the list it returned
    co_overlapped,    \* the cycle entered last was entered while the other ran
    post_queue,       \* the rows of the PostQueue table: status, scheduled_at
    publish_log,      \* for each row, how each publish_tweet it was handed to ended
    pass_pc,          \* where _process_post_queue stands
    pass_ready,       \* ... the rows of ready_items not yet handled
    pass_status,      \* ... the status of the row objects of ready_items
    handed            \* the status of the row handed to publish_tweet last, and
                      \* whether its scheduled_at was not in the future then

dedup_vars == <<seen_hashes, dd_op, dd_in, dd_out, dd_seen_before, dd_again,
                dd_clear_between, hist_fps, hist_fps_before, hist_keys_before,
                hist_keys, emitted, emitted_again>>

score_vars == <<scorer_sources, sc_op, sc_in, sc_clock, sc_raw, sc_out>>

agg_vars == <<pc, limit, src_idx, all_items, unique_items, scored_items, top_items,
              fetched, prev_raised, returned_fps>>

call_vars == <<call_pc, call_items, call_pos, call_unique_items, call_seen_hashes,
               call_overlapped>>

sched_vars == <<sched_started, job_instances, job_skipped, wall_hour>>

item_vars == <<probe_op, probe_item, probe_clock, probe_sources, probe_locals>>

co_vars == <<co_pc, co_idx, co_all_items, co_top_items, co_overlapped>>

queue_vars == <<post_queue, publish_log, pass_pc, pass_ready, pass_status, handed>>

vars == <<dedup_vars, score_vars, agg_vars, now, call_vars, sched_vars, item_vars, co_vars, queue_vars>>

(***************************************************************************)
(* Characters and strings                                                  *)
(***************************************************************************)
UpperChars == <<"A","B","C","D","E","F","G","H","I","J","K","L","M","N","O","P","Q","R","S","T","U","V","W","X","Y","Z">>

LowerChars == <<"a","b","c","d","e","f","g","h","i","j","k","l","m","n","o","p","q","r","s","t","u","v","w","x","y","z">>

DigitChars == {"0","1","2","3","4","5","6","7","8","9"}

SpaceChars == {" ", "\t", "\n"}

\* the characters outside ASCII, named by their code points: the capital I
\* with a dot above, the small dotless i and the combining dot above
CapitalDottedI == "U+0130"

SmallDotlessI == "U+0131"

CombiningDot == "U+0307"

Range(f) == {f[i] : i \in DOMAIN f}

UpperSet == Range(UpperChars)

WordChars == Range(UpperChars) \cup Range(LowerChars) \cup DigitChars \cup {"_"}
             \cup {CapitalDottedI, SmallDotlessI}

\* str.isupper() of one character
IsUpper(c) == c \in UpperSet \cup {CapitalDottedI}

\* str.isdigit() of one character
IsDigit(c) == c \in DigitChars

\* the class \s of the regular expressions
IsSpace(c) == c \in SpaceChars

\* the class \w of the regular expressions
IsWord(c) == c \in WordChars

\* str.lower() of one character: one character, or two for the capital I with
\* a dot above
LowerChar(c) ==
    IF c \in UpperSet
    THEN <<LowerChars[CHOOSE i \in DOMAIN UpperChars : UpperChars[i] = c]>>
    ELSE IF c = CapitalDottedI THEN <<"i", CombiningDot>>
    ELSE <<c>>

\* str.upper() of one character
UpperChar(c) ==
    IF c \in Range(LowerChars)
    THEN UpperChars[CHOOSE i \in DOMAIN LowerChars : LowerChars[i] = c]
    ELSE IF c = SmallDotlessI THEN "I"
    ELSE c

\* str.lower(): the lower-case forms of the characters, one after the other
RECURSIVE lower(_)
lower(text) ==
    IF text = <<>> THEN <<>>
    ELSE IF Len(text) = 1 THEN LowerChar(text[1])
    ELSE LET half == Len(text) \div 2
         IN  lower(SubSeq(text, 1, half)) \o lower(SubSeq(text, half + 1, Len(text)))

RECURSIVE DropSpaces(_)
DropSpaces(text) ==
    IF text # <<>> /\ IsSpace(Head(text)) THEN DropSpaces(Tail(text)) ELSE text

\* re.sub(r"\s+", " ", text)
RECURSIVE collapse_whitespace(_)
collapse_whitespace(text) ==
    IF text = <<>> THEN <<>>
    ELSE IF IsSpace(Head(text))
         THEN <<" ">> \o collapse_whitespace(DropSpaces(text))
         ELSE <<Head(text)>> \o collapse_whitespace(Tail(text))

KeepWordAndSpace(c) == IsWord(c) \/ IsSpace(c)

\* re.sub(r"[^\w\s]", "", text)
remove_punctuation(text) == SelectSeq(text, KeepWordAndSpace)

\* str.split(): the maximal runs of non-whitespace characters
RECURSIVE SplitFrom(_, _, _)
SplitFrom(text, word, words) ==
    IF text = <<>>
    THEN IF word = <<>> THEN words ELSE Append(words, word)
    ELSE IF IsSpace(Head(text))
         THEN SplitFrom(Tail(text), <<>>,
                        IF word = <<>> THEN words ELSE Append(words, word))
         ELSE SplitFrom(Tail(text), Append(word, Head(text)), words)

split(text) == SplitFrom(text, <<>>, <<>>)

\* " ".join(words)
RECURSIVE join(_)
join(words) ==
    IF words = <<>> THEN <<>>
    ELSE IF Len(words) = 1 THEN words[1]
         ELSE words[1] \o <<" ">> \o join(Tail(words))

stop_words == {
    <<"t","h","e">>, <<"a">>, <<"a","n">>, <<"a","n","d">>, <<"o","r">>, <<"b","u","t">>,
    <<"i","n">>, <<"o","n">>, <<"a","t">>, <<"t","o">>, <<"f","o","r">>, <<"o","f">>,
    <<"w","i","t","h">>, <<"b","y">>, <<"i","s">>, <<"a","r","e">>, <<"w","a","s">>,
    <<"w","e","r","e">>, <<"b","e">>, <<"b","e","e","n">>, <<"b","e","i","n","g">>,
    <<"h","a","v","e">>, <<"h","a","s">>, <<"h","a","d">>, <<"d","o">>, <<"d","o","e","s">>,
    <<"d","i","d">>, <<"w","i","l","l">>, <<"w","o","u","l","d">>, <<"c","o","u","l","d">>,
    <<"s","h","o","u","l","d">>, <<"m","a","y">>, <<"m","i","g","h","t">>,
    <<"m","u","s","t">>, <<"c","a","n">>, <<"t","h","i","s">>, <<"t","h","a","t">>,
    <<"t","h","e","s","e">>, <<"t","h","o","s","e">>, <<"i">>, <<"y","o","u">>, <<"h","e">>,
    <<"s","h","e">>, <<"i","t">>, <<"w","e">>, <<"t","h","e","y">>, <<"m","e">>,
    <<"h","i","m">>, <<"h","e","r">>, <<"u","s">>, <<"t","h","e","m">>, <<"m","y">>,
    <<"y","o","u","r">>, <<"h","i","s">>, <<"i","t","s">>, <<"o","u","r">>,
    <<"t","h","e","i","r">> }

NotStopWord(word) == word \notin stop_words

\* Deduplicator._normalize_text
normalize_text(text) ==
    join(SelectSeq(split(remove_punctuation(collapse_whitespace(lower(text)))),
                   NotStopWord))

\* the titles of the records of this model
TitleTheNews == <<"T","h","e"," ","N","e","w","s">>

TitleNewsBang == <<"n","e","w","s","!">>

TitleNewsBar == <<"n","e","w","s","|">>

TitleNews == <<"n","e","w","s">>

TitleBigNews == <<"B","i","g"," "," ","N","e","w","s">>

TitleSportNews == <<"S","p","o","r","t"," ","n","e","w","s"," ","1","?">>

TitleEmpty == <<>>

TitleLowerTheNews == <<"t","h","e"," ","n","e","w","s">>

TitleBigNewsOneSpace == <<"B","i","g"," ","N","e","w","s">>

TitleMajorNews == <<"M","a","j","o","r"," ","N","e","w","s">>

\* 'Breaking: Major NEWS!!!'
TitleBreaking == <<"B","r","e","a","k","i","n","g",":"," ","M","a","j","o","r"," ","N","E","W","S","!","!","!">>

TitleBreakingPlain == <<"B","r","e","a","k","i","n","g"," ","M","a","j","o","r"," ","N","E","W","S">>

\* 'breaking major news'
TitleBreakingLower == <<"b","r","e","a","k","i","n","g"," ","m","a","j","o","r"," ","n","e","w","s">>

TitleWhat == <<"w","h","a","t","?","?","?"," ","2","x">>

\* 200 and 201 characters: 'A?aaa...'
TitleLong200 == <<"A","?">> \o [i \in 1..198 |-> "a"]

TitleLong201 == <<"A","?">> \o [i \in 1..199 |-> "a"]

\* a title of nine characters, the first the capital I with a dot above,
\* followed by 'stanbul!'
TitleIstanbul == <<CapitalDottedI,"s","t","a","n","b","u","l","!">>

\* 'ILIK', and the same word in small letters, its i the small dotless i
TitleIlikUpper == <<"I","L","I","K">>

TitleIlikLower == <<SmallDotlessI,"l",SmallDotlessI,"k">>

Titles == {TitleTheNews, TitleNewsBang, TitleNewsBar, TitleNews, TitleBigNews,
           TitleSportNews, TitleEmpty, TitleLowerTheNews, TitleBigNewsOneSpace,
           TitleMajorNews, TitleBreaking, TitleBreakingPlain, TitleBreakingLower,
           TitleWhat, TitleIstanbul, TitleIlikUpper, TitleIlikLower}

\* the titles that are scored: those and the long ones
ScoredTitles == Titles \cup {TitleLong200, TitleLong201}

\* normalize_text of each title, computed once
normalized_titles == [text \in Titles |-> normalize_text(text)]

(***************************************************************************)
(* Trend items                                                             *)
(***************************************************************************)
\* the absent value of an Optional[str]: no text, since "None" is no character
None == <<"None">>

UrlX == <<"x">>

UrlBarX == <<"|","x">>

\* models.TrendItem, the fields the aggregation core reads or writes
Item(source, external_id, title, url, social_volume, is_turkey_related, is_global, created_at) ==
    [source |-> source, external_id |-> external_id, title |-> title, url |-> url,
     score |-> [num |-> 0, den |-> 1], social_volume |-> social_volume,
     is_turkey_related |-> is_turkey_related, is_global |-> is_global,
     created_at |-> created_at]

\* a TrendItem built with the defaults of the model class
TrendItem(source, external_id, title, url) ==
    Item(source, external_id, title, url, 0, FALSE, TRUE, 0)

\* item.url or ''
url_or_empty(url) == IF url = None THEN <<>> ELSE url

\* hashlib.md5(...).hexdigest(): a digest that differs for different inputs
md5(hash_input) == [md5_of |-> hash_input]

\* the f-string f"{normalized_title}|{item.url or ''}"
hash_input(normalized_title, url) == normalized_title \o <<"|">> \o url_or_empty(url)

\* a fingerprint that also depends on the source of the record
generate_item_hash_with_source(item) ==
    md5(hash_input(normalized_titles[item.title], item.url) \o <<item.source>>)

\* Deduplicator._generate_item_hash
generate_item_hash(item) == md5(hash_input(normalized_titles[item.title], item.url))

\* a test that forgets the fingerprints of the current call
is_new_hash_global_only(item_hash, local_seen, global_seen) ==
    item_hash \notin global_seen

\* the test of one record in the loop of Deduplicator.deduplicate
is_new_hash(item_hash, local_seen, global_seen) ==
    item_hash \notin local_seen /\ item_hash \notin global_seen

\* the loop of Deduplicator.deduplicate over the records not yet examined
RECURSIVE dedup_loop(_, _, _, _)
dedup_loop(items, unique, local_seen, global_seen) ==
    IF items = <<>>
    THEN [unique_items |-> unique, seen_hashes |-> local_seen]
    ELSE LET item == Head(items)
             item_hash == generate_item_hash(item)
         IN  IF is_new_hash(item_hash, local_seen, global_seen)
             THEN dedup_loop(Tail(items), Append(unique, item),
                             local_seen \cup {item_hash}, global_seen)
             ELSE dedup_loop(Tail(items), unique, local_seen, global_seen)

\* a deduplicate that never merges into the persistent set
deduplicate_no_update(items, global_seen) ==
    [unique_items |-> dedup_loop(items, <<>>, {}, global_seen).unique_items,
     seen_hashes |-> global_seen]

\* a deduplicate that only compares the records of one call with each other
deduplicate_batch_only(items, global_seen) ==
    LET r == dedup_loop(items, <<>>, {}, {})
    IN  [unique_items |-> r.unique_items,
         seen_hashes |-> global_seen \cup r.seen_hashes]

\* a deduplicate that returns the newest record first
deduplicate_newest_first(items, global_seen) ==
    LET r == dedup_loop(items, <<>>, {}, global_seen)
    IN  [unique_items |-> [i \in DOMAIN r.unique_items |->
                              r.unique_items[Len(r.unique_items) + 1 - i]],
         seen_hashes |-> global_seen \cup r.seen_hashes]

\* a deduplicate that empties the persistent set when handed an empty list
deduplicate_forgetting_on_empty(items, global_seen) ==
    IF items = <<>>
    THEN [unique_items |-> items, seen_hashes |-> {}]
    ELSE LET r == dedup_loop(items, <<>>, {}, global_seen)
         IN  [unique_items |-> r.unique_items,
              seen_hashes |-> global_seen \cup r.seen_hashes]

\* a deduplicate that keeps only the fingerprints of its own call
deduplicate_replacing_set(items, global_seen) ==
    IF items = <<>>
    THEN [unique_items |-> items, seen_hashes |-> global_seen]
    ELSE LET r == dedup_loop(items, <<>>, {}, global_seen)
         IN  [unique_items |-> r.unique_items, seen_hashes |-> r.seen_hashes]

\* Deduplicator.deduplicate: the returned list and the new persistent set
deduplicate(items, global_seen) ==
    IF items = <<>>
    THEN [unique_items |-> items, seen_hashes |-> global_seen]
    ELSE LET r == dedup_loop(items, <<>>, {}, global_seen)
         IN  [unique_items |-> r.unique_items,
              seen_hashes |-> global_seen \cup r.seen_hashes]

(***************************************************************************)
(* TrendScorer                                                             *)
(***************************************************************************)
\* k/10 and k/100 as sub-scores, in units of 1/2300
Tenth(k) == k * 230

Hundredth(k) == k * 23

\* 1.0 as a sub-score and as a raw score (units of 1/23000)
SubOne == Tenth(10)

RawOne == 10 * SubOne

Min2(a, b) == IF a <= b THEN a ELSE b

Max2(a, b) == IF a >= b THEN a ELSE b

\* the source map handed to TrendAggregator and by it to TrendScorer: the
\* adapters with their get_source_authority_score()
sources == [reddit |-> Tenth(8), google_trends |-> Tenth(9)]

\* the default authority scores
authority_scores ==
    [reddit |-> Tenth(8), google_trends |-> Tenth(9), twitter_trends |-> Tenth(7),
     youtube_trending |-> Tenth(6), rss |-> Tenth(5)]

\* a recency score without the branch for the records newer than one hour
calculate_recency_score_decay_only(item, clock) ==
    LET age == clock - item.created_at
    IN  IF age >= 24 THEN Tenth(1)
        ELSE Max2(Tenth(1), SubOne - (age - 1) * 100)

\* TrendScorer._calculate_recency_score, the clock being read at `clock`
calculate_recency_score(item, clock) ==
    LET age == clock - item.created_at
    IN  IF age <= 1 THEN SubOne
        ELSE IF age >= 24 THEN Tenth(1)
        ELSE Max2(Tenth(1), SubOne - (age - 1) * 100)

\* a lookup that asks the default table before the source map
get_source_authority_table_first(source) ==
    IF source \in DOMAIN authority_scores THEN authority_scores[source]
    ELSE IF source \in DOMAIN scorer_sources THEN scorer_sources[source]
    ELSE Tenth(5)

\* TrendScorer._get_source_authority
get_source_authority(source) ==
    IF source \in DOMAIN scorer_sources THEN scorer_sources[source]
    ELSE IF source \in DOMAIN authority_scores THEN authority_scores[source]
    ELSE Tenth(5)

max_volume == 5000

\* 100 * log10(x / max_volume), rounded, at the arguments 1 + 9 * normalized_volume
\* the volumes of this model give, and at 1 + 9 * 6000 / max_volume
log10_hundredths ==
    [x \in {9500, 14000, 27500, 50000, 59000} |->
        CASE x = 9500 -> 28 [] x = 14000 -> 45 [] x = 27500 -> 74 [] x = 50000 -> 100
          [] x = 59000 -> 107]

\* a social volume score that does not cap the volume at max_volume
calculate_social_volume_score_uncapped(item) ==
    IF item.social_volume <= 0 THEN 0
    ELSE Hundredth(log10_hundredths[max_volume + 9 * item.social_volume])

\* TrendScorer._calculate_social_volume_score
calculate_social_volume_score(item) ==
    IF item.social_volume <= 0 THEN 0
    ELSE Hundredth(log10_hundredths[max_volume + 9 * Min2(item.social_volume, max_volume)])

\* TrendScorer._calculate_relevance_bonus
calculate_relevance_bonus(item) ==
    Min2((IF item.is_turkey_related THEN Tenth(1) ELSE 0)
         + (IF item.is_global THEN Hundredth(5) ELSE 0), Tenth(2))

Count(text, c) == Cardinality({i \in DOMAIN text : text[i] = c})

\* TrendScorer._calculate_title_quality_score of a title
title_quality(text) ==
    LET title == lower(text)
        base == IF IsUpper(text[1]) THEN Tenth(7) ELSE Tenth(5)
        question == IF Count(title, "?") > 0 THEN Tenth(1) ELSE 0
        digit == IF \E i \in DOMAIN title : IsDigit(title[i]) THEN Tenth(1) ELSE 0
        penalty == IF Count(title, "!") > 2 \/ Count(title, "?") > 2
                   THEN Tenth(1) ELSE 0
    IN  IF Len(title) < 10 THEN Tenth(3)
        ELSE IF Len(title) > 200 THEN Tenth(5)
        ELSE Min2(Max2(base + question + digit - penalty, 0), SubOne)

\* title_quality of each title, computed once
title_quality_scores == [text \in ScoredTitles |-> title_quality(text)]

calculate_title_quality_score(item) == title_quality_scores[item.title]

\* an item score whose five terms weigh the same
calculate_item_score_equal_weights(item, clock) ==
    Min2(2 * calculate_recency_score(item, clock)
         + 2 * get_source_authority(item.source)
         + 2 * calculate_social_volume_score(item)
         + 2 * calculate_relevance_bonus(item)
         + 2 * calculate_title_quality_score(item), RawOne)

\* TrendScorer._calculate_item_score, in units of 1/23000
calculate_item_score(item, clock) ==
    Min2(3 * calculate_recency_score(item, clock)
         + 2 * get_source_authority(item.source)
         + 2 * calculate_social_volume_score(item)
         + 2 * calculate_relevance_bonus(item)
         + 1 * calculate_title_quality_score(item), RawOne)

\* the sub-scores and the score _calculate_item_score computes
item_score_locals(item, clock) ==
    [recency_score |-> calculate_recency_score(item, clock),
     source_authority |-> get_source_authority(item.source),
     social_volume_score |-> calculate_social_volume_score(item),
     relevance_bonus |-> calculate_relevance_bonus(item),
     title_quality |-> calculate_title_quality_score(item),
     score |-> calculate_item_score(item, clock)]

\* item.score = self._calculate_item_score(item) for each record of the batch
raw_scores(items, clocks) ==
    [i \in DOMAIN items |-> calculate_item_score(items[i], clocks[i])]

SeqMax(xs) == CHOOSE x \in Range(xs) : \A y \in Range(xs) : y <= x

SeqMin(xs) == CHOOSE x \in Range(xs) : \A y \in Range(xs) : x <= y

\* a rescaling that forgets to subtract the minimum
normalized_score_no_min(raw, min_score, max_score) ==
    IF max_score = min_score THEN [num |-> 1, den |-> 2]
    ELSE [num |-> raw, den |-> max_score - min_score]

\* a rescaling that gives 1.0 to a batch of equal scores
normalized_score_equal_to_one(raw, min_score, max_score) ==
    IF max_score = min_score THEN [num |-> 1, den |-> 1]
    ELSE [num |-> raw - min_score, den |-> max_score - min_score]

\* a rescaling that divides by the maximum alone
normalized_score_by_max(raw, min_score, max_score) ==
    IF max_score = min_score THEN [num |-> 1, den |-> 2]
    ELSE [num |-> raw, den |-> max_score]

\* TrendScorer._normalize_scores: the new score of a record of raw score `raw`
normalized_score(raw, min_score, max_score) ==
    IF max_score = min_score THEN [num |-> 1, den |-> 2]
    ELSE [num |-> raw - min_score, den |-> max_score - min_score]

\* x.score < y.score
ScoreLess(x, y) == x.score.num * y.score.den < y.score.num * x.score.den

\* an insertion in front of the records of equal score
insert_before_equal(sorted, item) ==
    LET pos == Cardinality({i \in DOMAIN sorted : ScoreLess(item, sorted[i])})
    IN  SubSeq(sorted, 1, pos) \o <<item>> \o SubSeq(sorted, pos + 1, Len(sorted))

\* a merge that lets a record take the place of the records of equal score
insert_dropping_equal(sorted, item) ==
    LET higher == Cardinality({i \in DOMAIN sorted : ScoreLess(item, sorted[i])})
        pos == Cardinality({i \in DOMAIN sorted : ~ScoreLess(sorted[i], item)})
    IN  SubSeq(sorted, 1, higher) \o <<item>> \o SubSeq(sorted, pos + 1, Len(sorted))

\* one record merged into a list sorted by descending score, behind the records
\* of equal score
insert_sorted(sorted, item) ==
    LET pos == Cardinality({i \in DOMAIN sorted : ~ScoreLess(sorted[i], item)})
    IN  SubSeq(sorted, 1, pos) \o <<item>> \o SubSeq(sorted, pos + 1, Len(sorted))

\* items.sort(key=lambda x: x.score, reverse=True)
RECURSIVE sort_by_score(_, _)
sort_by_score(items, sorted) ==
    IF items = <<>> THEN sorted
    ELSE sort_by_score(Tail(items), insert_sorted(sorted, Head(items)))

\* the loops of TrendScorer._normalize_scores over the records of the batch
normalize_scores(items, raw, min_score, max_score) ==
    [i \in DOMAIN items |->
        [items[i] EXCEPT !.score = normalized_score(raw[i], min_score, max_score)]]

\* self._normalize_scores(items) and items.sort(...), raw being the scores of
\* the records before
normalize_and_sort(items, raw) ==
    sort_by_score(normalize_scores(items, raw, SeqMin(raw), SeqMax(raw)), <<>>)

\* TrendScorer.calculate_scores, the clock being read at clocks[i] for items[i]
calculate_scores(items, clocks) ==
    IF items = <<>> THEN items
    ELSE normalize_and_sort(items, raw_scores(items, clocks))

(***************************************************************************)
(* TrendAggregator                                                         *)
(***************************************************************************)
\* self.sources.items(): the source names in the order of the dict
source_order == <<"reddit", "google_trends">>

\* the records a fetch_trends of each source can return
Feed(name) ==
    IF name = "reddit"
    THEN {Item("reddit", "r1", TitleTheNews, UrlX, 1000, TRUE, FALSE, 0),
          Item("reddit", "r2", TitleSportNews, None, 5000, TRUE, TRUE, 0 - 12)}
    ELSE {Item("google_trends", "g1", TitleNewsBang, UrlX, 0, FALSE, TRUE, 0 - 30),
          Item("google_trends", "g2", TitleBigNews, UrlX, 0, FALSE, TRUE, 0 - 30)}

\* the outcomes of one await source.fetch_trends(limit=limit); a fetch that
\* raises had collected the records `items` by then
NotFetched == [status |-> "pending", items |-> <<>>]

Returned(items) == [status |-> "returned", items |-> items]

Raised(items) == [status |-> "raised", items |-> items]

\* an extend that puts the new records first
extend_front(list, items) == items \o list

\* all_items.extend(items)
extend(list, items) == list \o items

\* a slice that keeps one record too many
slice_to_inclusive(list, n) == SubSeq(list, 1, Min2(n + 1, Len(list)))

\* scored_items[:limit], for limit >= 0
slice_to(list, n) == SubSeq(list, 1, Min2(n, Len(list)))

(***************************************************************************)
(* Deduplicator driven directly: any sequence of deduplicate and           *)
(* clear_cache calls on one instance                                       *)
(***************************************************************************)
MaxBatch == 2

\* the records handed to deduplicate: equal and different normalized titles,
\* equal, different, empty and absent urls, different sources and external ids
DedupItems == {
    TrendItem("reddit", "e1", TitleTheNews, UrlX),
    TrendItem("rss", "e2", TitleNewsBang, UrlX),
    TrendItem("reddit", "e1", TitleTheNews, None),
    TrendItem("reddit", "e3", TitleNewsBar, <<>>),
    TrendItem("reddit", "e4", TitleNews, UrlBarX),
    TrendItem("rss", "e5", TitleBigNews, UrlX) }

Lists(S, n) == UNION {[1..k -> S] : k \in 0..n}

\* the (normalized title, url) pair two duplicates share
content_key(item) == <<normalized_titles[item.title], url_or_empty(item.url)>>

Fps(items) == {generate_item_hash(items[i]) : i \in DOMAIN items}

Keys(items) == {content_key(items[i]) : i \in DOMAIN items}

RepeatedFps(items) ==
    {generate_item_hash(items[i]) : i \in
        {j \in DOMAIN items : \E k \in DOMAIN items :
            k # j /\ generate_item_hash(items[k]) = generate_item_hash(items[j])}}

\* the callers of deduplicate that run side by side on one instance
Callers == {"first", "second"}

\* the aggregate_trends coroutines that run on one event loop
Coroutines == {"first", "second"}

\* no row has been handed to publish_tweet yet
NotHanded == [status |-> "none", due |-> FALSE]

\* the ids of the jobs TrendScheduler.start adds
JobIds == {"hourly_trend_posting"}

Init ==
    /\ seen_hashes = {}
    /\ now = 0
    /\ dd_op = "init"
    /\ dd_in = <<>>
    /\ dd_out = <<>>
    /\ dd_seen_before = {}
    /\ dd_again = FALSE
    /\ dd_clear_between = FALSE
    /\ hist_fps = {}
    /\ hist_fps_before = {}
    /\ hist_keys = {}
    /\ hist_keys_before = {}
    /\ emitted = {}
    /\ emitted_again = {}
    /\ scorer_sources = sources
    /\ sc_op = "init"
    /\ sc_in = <<>>
    /\ sc_clock = <<>>
    /\ sc_raw = <<>>
    /\ sc_out = <<>>
    /\ pc = "idle"
    /\ limit = 1
    /\ src_idx = 1
    /\ all_items = <<>>
    /\ unique_items = <<>>
    /\ scored_items = <<>>
    /\ top_items = <<>>
    /\ fetched = [i \in DOMAIN source_order |-> NotFetched]
    /\ prev_raised = {}
    /\ returned_fps = {}
    /\ call_pc = [c \in Callers |-> "idle"]
    /\ call_items = [c \in Callers |-> <<>>]
    /\ call_pos = [c \in Callers |-> 1]
    /\ call_unique_items = [c \in Callers |-> <<>>]
    /\ call_seen_hashes = [c \in Callers |-> {}]
    /\ call_overlapped = [c \in Callers |-> FALSE]
    /\ sched_started = FALSE
    /\ job_instances = [j \in JobIds |-> <<>>]
    /\ job_skipped = [j \in JobIds |-> 0]
    /\ wall_hour = 0
    /\ probe_op = "init"
    /\ probe_item = Item("reddit", "p", TitleTheNews, UrlX, 0, FALSE, FALSE, 0)
    /\ probe_clock = 0
    /\ probe_sources = sources
    /\ probe_locals = [recency_score |-> 0, source_authority |-> 0,
                       social_volume_score |-> 0, relevance_bonus |-> 0,
                       title_quality |-> 0, score |-> 0]
    /\ co_pc = [k \in Coroutines |-> "idle"]
    /\ co_idx = [k \in Coroutines |-> 1]
    /\ co_all_items = [k \in Coroutines |-> <<>>]
    /\ co_top_items = [k \in Coroutines |-> <<>>]
    /\ co_overlapped = FALSE
    /\ post_queue = <<>>
    /\ publish_log = <<>>
    /\ pass_pc = "idle"
    /\ pass_ready = {}
    /\ pass_status = <<>>
    /\ handed = NotHanded

\* the effect of deduplicator.deduplicate(items) on the instance and its record
DoDeduplicate(items) ==
    \E r \in {deduplicate(items, seen_hashes)} :
        /\ seen_hashes' = r.seen_hashes
        /\ dd_op' = "deduplicate"
        /\ dd_in' = items
        /\ dd_out' = r.unique_items
        /\ dd_seen_before' = seen_hashes
        /\ dd_again' = (dd_op # "init" /\ items = dd_out)
        /\ dd_clear_between' = (dd_op = "clear_cache")
        /\ hist_fps' = hist_fps \cup Fps(items)
        /\ hist_fps_before' = hist_fps
        /\ hist_keys' = hist_keys \cup Keys(items)
        /\ hist_keys_before' = hist_keys
        /\ emitted' = emitted \cup Fps(r.unique_items)
        /\ emitted_again' = emitted_again
                             \cup (emitted \cap Fps(r.unique_items))
                             \cup RepeatedFps(r.unique_items)

\* one call deduplicator.deduplicate(items)
DeduplicateCall ==
    \E items \in Lists(DedupItems, MaxBatch) :
        /\ DoDeduplicate(items)
        /\ UNCHANGED <<now, score_vars, agg_vars, call_vars, sched_vars, item_vars,
                   co_vars, queue_vars>>

\* a clear_cache that leaves the persistent set as it is
clear_cache_keeping_hashes ==
    /\ dd_op' = "clear_cache"
    /\ UNCHANGED <<seen_hashes, hist_fps, hist_keys, emitted, emitted_again, now,
                   dd_in, dd_out, dd_seen_before, dd_again, dd_clear_between,
                   hist_fps_before, hist_keys_before, score_vars, agg_vars, call_vars, sched_vars, item_vars,
                   co_vars, queue_vars>>

\* Deduplicator.clear_cache
clear_cache ==
    /\ seen_hashes' = {}
    /\ dd_op' = "clear_cache"
    /\ hist_fps' = {}
    /\ hist_keys' = {}
    /\ emitted' = {}
    /\ emitted_again' = {}
    /\ UNCHANGED <<now, dd_in, dd_out, dd_seen_before, dd_again,
                   dd_clear_between, hist_fps_before, hist_keys_before,
                   score_vars, agg_vars, call_vars, sched_vars, item_vars,
                   co_vars, queue_vars>>

NextDedup == DeduplicateCall \/ clear_cache

SpecDedup == Init /\ [][NextDedup]_vars

(***************************************************************************)
(* Deduplicator.deduplicate run record by record by callers that are not   *)
(* serialized: the steps of two calls on one instance interleave            *)
(***************************************************************************)
MaxCallBatch == 2

\* the records handed to these calls: two of one fingerprint and a third
CallItems == {
    TrendItem("reddit", "e1", TitleTheNews, UrlX),
    TrendItem("rss", "e2", TitleNewsBang, UrlX),
    TrendItem("rss", "e5", TitleBigNews, UrlX) }

\* deduplicate(items) is entered: an empty list is returned at once, else the
\* local list and set are created
CallBegins(c) ==
    /\ call_pc[c] \in {"idle", "returned"}
    /\ \E items \in Lists(CallItems, MaxCallBatch) :
        /\ call_items' = [call_items EXCEPT ![c] = items]
        /\ call_pc' = [call_pc EXCEPT ![c] = IF items = <<>> THEN "returned" ELSE "loop"]
    /\ call_pos' = [call_pos EXCEPT ![c] = 1]
    /\ call_unique_items' = [call_unique_items EXCEPT ![c] = <<>>]
    /\ call_seen_hashes' = [call_seen_hashes EXCEPT ![c] = {}]
    /\ call_overlapped' =
          IF call_pc'[c] = "loop" /\ \E d \in Callers \ {c} : call_pc[d] = "loop"
          THEN [d \in Callers |-> call_overlapped[d] \/ d = c \/ call_pc[d] = "loop"]
          ELSE [call_overlapped EXCEPT ![c] = FALSE]
    /\ UNCHANGED <<dedup_vars, score_vars, agg_vars, now, sched_vars, item_vars,
                   co_vars, queue_vars>>

\* a loop body that puts the fingerprint into the persistent set at once
ExamineRecordMergingAtOnce(c) ==
    /\ call_pc[c] = "loop"
    /\ call_pos[c] <= Len(call_items[c])
    /\ LET item == call_items[c][call_pos[c]]
           item_hash == generate_item_hash(item)
       IN  IF is_new_hash(item_hash, call_seen_hashes[c], seen_hashes)
           THEN /\ call_unique_items' =
                     [call_unique_items EXCEPT ![c] = Append(call_unique_items[c], item)]
                /\ call_seen_hashes' =
                     [call_seen_hashes EXCEPT ![c] = call_seen_hashes[c] \cup {item_hash}]
                /\ seen_hashes' = seen_hashes \cup {item_hash}
           ELSE UNCHANGED <<call_unique_items, call_seen_hashes, seen_hashes>>
    /\ call_pos' = [call_pos EXCEPT ![c] = call_pos[c] + 1]
    /\ UNCHANGED <<call_pc, call_items, call_overlapped, dd_op, dd_in, dd_out, dd_seen_before, dd_again,
                   dd_clear_between, hist_fps, hist_fps_before, hist_keys_before,
                   hist_keys, emitted, emitted_again, score_vars, agg_vars, now, sched_vars, item_vars,
                   co_vars, queue_vars>>

\* one pass of the loop of deduplicate: the record at the loop position is
\* tested against the local and the persistent set
ExamineRecord(c) ==
    /\ call_pc[c] = "loop"
    /\ call_pos[c] <= Len(call_items[c])
    /\ LET item == call_items[c][call_pos[c]]
           item_hash == generate_item_hash(item)
       IN  IF is_new_hash(item_hash, call_seen_hashes[c], seen_hashes)
           THEN /\ call_unique_items' =
                     [call_unique_items EXCEPT ![c] = Append(call_unique_items[c], item)]
                /\ call_seen_hashes' =
                     [call_seen_hashes EXCEPT ![c] = call_seen_hashes[c] \cup {item_hash}]
           ELSE UNCHANGED <<call_unique_items, call_seen_hashes>>
    /\ call_pos' = [call_pos EXCEPT ![c] = call_pos[c] + 1]
    /\ UNCHANGED <<call_pc, call_items, call_overlapped, dedup_vars, score_vars, agg_vars, now,
                   sched_vars, item_vars,
                   co_vars, queue_vars>>

\* a return of the local list that leaves the persistent set as it is
ReturnWithoutMerging(c) ==
    /\ call_pc[c] = "loop"
    /\ call_pos[c] > Len(call_items[c])
    /\ call_pc' = [call_pc EXCEPT ![c] = "returned"]
    /\ call_items' = [call_items EXCEPT ![c] = <<>>]
    /\ call_pos' = [call_pos EXCEPT ![c] = 1]
    /\ call_seen_hashes' = [call_seen_hashes EXCEPT ![c] = {}]
    /\ UNCHANGED <<call_unique_items, call_overlapped, dedup_vars, score_vars, agg_vars,
                   now, sched_vars, item_vars,
                   co_vars, queue_vars>>

\* after the last record: self.seen_hashes.update(seen_hashes), and the local
\* list is returned; the other locals of the call are gone
MergeAndReturn(c) ==
    /\ call_pc[c] = "loop"
    /\ call_pos[c] > Len(call_items[c])
    /\ seen_hashes' = seen_hashes \cup call_seen_hashes[c]
    /\ call_pc' = [call_pc EXCEPT ![c] = "returned"]
    /\ call_items' = [call_items EXCEPT ![c] = <<>>]
    /\ call_pos' = [call_pos EXCEPT ![c] = 1]
    /\ call_seen_hashes' = [call_seen_hashes EXCEPT ![c] = {}]
    /\ UNCHANGED <<call_unique_items,
                   call_overlapped, dd_op, dd_in, dd_out, dd_seen_before, dd_again, dd_clear_between,
                   hist_fps, hist_fps_before, hist_keys_before, hist_keys, emitted,
                   emitted_again, score_vars, agg_vars, now, sched_vars, item_vars,
                   co_vars, queue_vars>>

NextCalls ==
    \E c \in Callers : CallBegins(c) \/ ExamineRecord(c) \/ MergeAndReturn(c)

SpecCalls == Init /\ [][NextCalls]_vars

(***************************************************************************)
(* TrendScorer driven directly: any sequence of calculate_scores calls     *)
(***************************************************************************)
MaxScoreBatch == 3

MaxNow == 2

\* the records handed to calculate_scores: different ages, volumes, sources,
\* flags and titles, two records that differ in external_id alone and two that
\* differ in created_at alone (the other values of each field are scored one
\* record at a time further down)
ScoreItems == {
    Item("reddit", "s1", TitleTheNews, UrlX, 1000, TRUE, FALSE, 0),
    Item("google_trends", "s2", TitleBigNews, UrlX, 0, FALSE, TRUE, 0 - 30),
    Item("google_trends", "s3", TitleBigNews, UrlX, 0, FALSE, TRUE, 0 - 30),
    Item("reddit", "s1", TitleTheNews, UrlX, 1000, TRUE, FALSE, 0 - 1) }

\* the lists of at most n different records of S
DistinctLists(S, n) ==
    {l \in Lists(S, n) : \A i, j \in DOMAIN l : i # j => l[i] # l[j]}

\* the readings n successive calls of datetime.utcnow() can give from `from` on
ClockReadings(from, n) ==
    {c \in [1..n -> from..MaxNow] : \A i, j \in 1..n : i < j => c[i] <= c[j]}

\* one call scorer.calculate_scores(items)
CalculateScoresCall ==
    \E items \in DistinctLists(ScoreItems, MaxScoreBatch) :
        \E clocks \in ClockReadings(now, Len(items)) :
            /\ sc_op' = "calculate_scores"
            /\ sc_in' = items
            /\ sc_clock' = clocks
            /\ sc_raw' = raw_scores(items, clocks)
            /\ sc_out' = calculate_scores(items, clocks)
            /\ now' = IF items = <<>> THEN now ELSE clocks[Len(items)]
            /\ UNCHANGED <<scorer_sources, dedup_vars, agg_vars, call_vars, sched_vars, item_vars,
                   co_vars, queue_vars>>

\* time passes
Tick ==
    /\ now < MaxNow
    /\ now' = now + 1
    /\ UNCHANGED <<dedup_vars, score_vars, agg_vars, call_vars, sched_vars, item_vars,
                   co_vars, queue_vars>>

NextScore == CalculateScoresCall \/ Tick

SpecScore == Init /\ [][NextScore]_vars

(***************************************************************************)
(* TrendScorer._calculate_item_score driven directly, on scorers built     *)
(* with different source maps                                              *)
(***************************************************************************)
\* TrendSource: the values of the enum
TrendSource == {"reddit", "google_trends", "twitter_trends", "youtube_trending",
                "rss", "selenium_trends"}

\* the values of the other fields of the records that are scored
ProbeCreatedAt == {2, 0, 0 - 12, 0 - 22, 0 - 30}

ProbeVolumes == {0 - 1, 0, 500, 1000, 5000, 6000}

ProbeTitles == {TitleTheNews, TitleSportNews}

\* the source maps a TrendScorer is built with: the map of the aggregator, the
\* map of the scheduler, and a map with an adapter of authority 0.5
SourceMaps == {sources, [selenium_trends |-> Tenth(9)], [reddit |-> Tenth(5)]}

\* the records that differ from item in at most one field
NearItems(item) ==
    {[item EXCEPT !.source = v] : v \in TrendSource}
    \cup {[item EXCEPT !.created_at = v] : v \in ProbeCreatedAt}
    \cup {[item EXCEPT !.social_volume = v] : v \in ProbeVolumes}
    \cup {[item EXCEPT !.is_turkey_related = v] : v \in BOOLEAN}
    \cup {[item EXCEPT !.is_global = v] : v \in BOOLEAN}
    \cup {[item EXCEPT !.title = v] : v \in ProbeTitles}

\* TrendScorer(sources)
NewScorer ==
    /\ \E m \in SourceMaps : scorer_sources' = m
    /\ UNCHANGED <<sc_op, sc_in, sc_clock, sc_raw, sc_out, item_vars,
                   dedup_vars, agg_vars, now, call_vars, sched_vars,
                   co_vars, queue_vars>>

\* one call scorer._calculate_item_score(item), of a record that differs from
\* the record of the call before in one field
CalculateItemScoreCall ==
    \E item \in NearItems(probe_item) :
        \E clock \in now..MaxNow :
            /\ probe_op' = "calculate_item_score"
            /\ probe_item' = item
            /\ probe_clock' = clock
            /\ probe_sources' = scorer_sources
            /\ probe_locals' = item_score_locals(item, clock)
            /\ now' = clock
            /\ UNCHANGED <<dedup_vars, score_vars, agg_vars, call_vars, sched_vars,
                   co_vars, queue_vars>>

NextItem == NewScorer \/ CalculateItemScoreCall

SpecItem == Init /\ [][NextItem]_vars

(***************************************************************************)
(* Deduplicator.deduplicate called with one or two records on an instance  *)
(* that holds no fingerprint, for every title and pair of titles            *)
(***************************************************************************)
\* the lists [R1] and [R1, R2] of records with the same url
TitleLists ==
    {<<TrendItem("reddit", "r1", t, UrlX)>> : t \in Titles}
    \cup {<<TrendItem("reddit", "r1", t, UrlX), TrendItem("rss", "r2", u, UrlX)>> :
             t \in Titles, u \in Titles}

\* deduplicator.deduplicate(items) on a new or cleared instance
DeduplicateTitlesCall ==
    /\ seen_hashes = {}
    /\ \E items \in TitleLists : DoDeduplicate(items)
    /\ UNCHANGED <<now, score_vars, agg_vars, call_vars, sched_vars, item_vars,
                   co_vars, queue_vars>>

NextNormalize == DeduplicateTitlesCall \/ clear_cache

SpecNormalize == Init /\ [][NextNormalize]_vars

(***************************************************************************)
(* TrendScorer._calculate_title_quality_score called directly              *)
(***************************************************************************)
\* the records whose title is scored: every title, from every source, related
\* to Turkey or not
TitleItems ==
    {Item(s, "p", t, UrlX, 0, b, FALSE, 0) : s \in TrendSource, t \in ScoredTitles, b \in BOOLEAN}

\* one call scorer._calculate_title_quality_score(item)
CalculateTitleQualityCall ==
    \E item \in TitleItems :
        /\ probe_op' = "calculate_title_quality_score"
        /\ probe_item' = item
        /\ probe_locals' = [recency_score |-> 0, source_authority |-> 0,
                            social_volume_score |-> 0, relevance_bonus |-> 0,
                            title_quality |-> calculate_title_quality_score(item),
                            score |-> 0]
        /\ UNCHANGED <<probe_clock, probe_sources, now, dedup_vars, score_vars,
                       agg_vars, call_vars, sched_vars,
                   co_vars, queue_vars>>

NextTitle == CalculateTitleQualityCall

SpecTitle == Init /\ [][NextTitle]_vars

(***************************************************************************)
(* TrendAggregator.aggregate_trends, one cycle after the other on one      *)
(* aggregator                                                              *)
(***************************************************************************)
MaxLimit == 2

MaxFetch == 2

MaxPartial == 1

\* a caller awaits aggregator.aggregate_trends(limit)
StartCycle ==
    /\ pc \in {"idle", "done"}
    /\ \E l \in 1..MaxLimit : limit' = l
    /\ pc' = "fetch"
    /\ src_idx' = 1
    /\ all_items' = <<>>
    /\ unique_items' = <<>>
    /\ scored_items' = <<>>
    /\ top_items' = <<>>
    /\ fetched' = [i \in DOMAIN source_order |-> NotFetched]
    /\ prev_raised' = {i \in DOMAIN source_order : fetched[i].status = "raised"}
    \* the record of the calls the cycle before made is dropped
    /\ dd_op' = "init"
    /\ dd_in' = <<>>
    /\ dd_out' = <<>>
    /\ dd_seen_before' = {}
    /\ dd_again' = FALSE
    /\ dd_clear_between' = FALSE
    /\ hist_fps_before' = {}
    /\ hist_keys_before' = {}
    /\ sc_op' = "init"
    /\ sc_in' = <<>>
    /\ sc_clock' = <<>>
    /\ sc_raw' = <<>>
    /\ sc_out' = <<>>
    /\ UNCHANGED <<scorer_sources, seen_hashes, hist_fps, hist_keys, emitted, emitted_again,
                   returned_fps, now, call_vars, sched_vars, item_vars,
                   co_vars, queue_vars>>

\* await source.fetch_trends(limit=limit) returns a list, which is appended
FetchReturns ==
    /\ pc = "fetch"
    /\ src_idx \in DOMAIN source_order
    /\ \E items \in Lists(Feed(source_order[src_idx]), MaxFetch) :
        /\ all_items' = extend(all_items, items)
        /\ fetched' = [fetched EXCEPT ![src_idx] = Returned(items)]
    /\ src_idx' = src_idx + 1
    /\ UNCHANGED <<pc, limit, unique_items, scored_items, top_items, prev_raised, returned_fps,
                   dedup_vars, score_vars, now, call_vars, sched_vars, item_vars,
                   co_vars, queue_vars>>

\* a handler that keeps what the failing source had collected
FetchRaisesKeepingPartial ==
    /\ pc = "fetch"
    /\ src_idx \in DOMAIN source_order
    /\ \E items \in Lists(Feed(source_order[src_idx]), MaxPartial) :
        /\ all_items' = extend(all_items, items)
        /\ fetched' = [fetched EXCEPT ![src_idx] = Raised(items)]
    /\ src_idx' = src_idx + 1
    /\ UNCHANGED <<pc, limit, unique_items, scored_items, top_items, prev_raised, returned_fps,
                   dedup_vars, score_vars, now, call_vars, sched_vars, item_vars,
                   co_vars, queue_vars>>

\* a loop without the except clause
FetchRaisesUncaught ==
    /\ pc = "fetch"
    /\ src_idx \in DOMAIN source_order
    /\ fetched' = [fetched EXCEPT ![src_idx] = Raised(<<>>)]
    /\ pc' = "raised"
    /\ UNCHANGED <<limit, src_idx, all_items, unique_items, scored_items, top_items,
                   prev_raised, returned_fps, dedup_vars, score_vars, now, call_vars, sched_vars, item_vars,
                   co_vars, queue_vars>>

\* await source.fetch_trends(limit=limit) raises: the except clause logs it
FetchRaises ==
    /\ pc = "fetch"
    /\ src_idx \in DOMAIN source_order
    /\ \E items \in Lists(Feed(source_order[src_idx]), MaxPartial) :
        fetched' = [fetched EXCEPT ![src_idx] = Raised(items)]
    /\ src_idx' = src_idx + 1
    /\ UNCHANGED <<pc, limit, all_items, unique_items, scored_items, top_items,
                   prev_raised, returned_fps, dedup_vars, score_vars, now, call_vars, sched_vars, item_vars,
                   co_vars, queue_vars>>

\* if not all_items: return []
ReturnEmpty ==
    /\ pc = "fetch"
    /\ src_idx > Len(source_order)
    /\ all_items = <<>>
    /\ top_items' = <<>>
    /\ pc' = "done"
    /\ UNCHANGED <<limit, src_idx, all_items, unique_items, scored_items, fetched,
                   prev_raised, returned_fps, dedup_vars, score_vars, now, call_vars, sched_vars, item_vars,
                   co_vars, queue_vars>>

\* unique_items = self.deduplicator.deduplicate(all_items)
DeduplicateStep ==
    /\ pc = "fetch"
    /\ src_idx > Len(source_order)
    /\ all_items # <<>>
    /\ DoDeduplicate(all_items)
    /\ unique_items' = dd_out'
    /\ pc' = "score"
    /\ UNCHANGED <<limit, src_idx, all_items, scored_items, top_items, fetched,
                   prev_raised, returned_fps, score_vars, now, call_vars, sched_vars, item_vars,
                   co_vars, queue_vars>>

\* scored_items = self.scorer.calculate_scores(unique_items)
ScoreStep ==
    /\ pc = "score"
    /\ \E clocks \in ClockReadings(now, Len(unique_items)) :
        /\ sc_op' = "calculate_scores"
        /\ sc_in' = unique_items
        /\ sc_clock' = clocks
        /\ sc_raw' = raw_scores(unique_items, clocks)
        /\ sc_out' = calculate_scores(unique_items, clocks)
        /\ now' = IF unique_items = <<>> THEN now ELSE clocks[Len(unique_items)]
    /\ scored_items' = sc_out'
    /\ pc' = "top"
    /\ UNCHANGED <<scorer_sources, limit, src_idx, all_items, unique_items, top_items,
                   fetched, prev_raised, returned_fps, dedup_vars, call_vars, sched_vars, item_vars,
                   co_vars, queue_vars>>

\* a return after which the instance has forgotten the records the limit cut
ReturnTopForgettingCut ==
    /\ pc = "top"
    /\ top_items' = slice_to(scored_items, limit)
    /\ returned_fps' = returned_fps \cup Fps(top_items')
    /\ seen_hashes' = seen_hashes \ (Fps(scored_items) \ Fps(top_items'))
    /\ pc' = "done"
    /\ UNCHANGED <<limit, src_idx, all_items, unique_items, scored_items, fetched,
                   prev_raised, dd_op, dd_in, dd_out, dd_seen_before, dd_again,
                   dd_clear_between, hist_fps, hist_fps_before, hist_keys_before,
                   hist_keys, emitted, emitted_again, score_vars, now, call_vars,
                   sched_vars, item_vars,
                   co_vars, queue_vars>>

\* top_items = scored_items[:limit]; return top_items
ReturnTop ==
    /\ pc = "top"
    /\ top_items' = slice_to(scored_items, limit)
    /\ returned_fps' = returned_fps \cup Fps(top_items')
    /\ pc' = "done"
    /\ UNCHANGED <<limit, src_idx, all_items, unique_items, scored_items, fetched,
                   prev_raised, dedup_vars, score_vars, now, call_vars, sched_vars, item_vars,
                   co_vars, queue_vars>>

Next ==
    \/ StartCycle
    \/ FetchReturns
    \/ FetchRaises
    \/ ReturnEmpty
    \/ DeduplicateStep
    \/ ScoreStep
    \/ ReturnTop

Spec == Init /\ [][Next]_vars

(***************************************************************************)
(* Two aggregate_trends coroutines of one aggregator on one event loop:    *)
(* one runs while the other waits at an await of source.fetch_trends       *)
(***************************************************************************)
MaxOverlapFetch == 1

\* the limit the scheduler passes: aggregate_trends(limit=1)
scheduler_limit == 1

\* aggregator.aggregate_trends(limit) is entered
CoStart(k) ==
    /\ co_pc[k] \in {"idle", "done"}
    /\ co_pc' = [co_pc EXCEPT ![k] = "fetch"]
    /\ co_idx' = [co_idx EXCEPT ![k] = 1]
    /\ co_all_items' = [co_all_items EXCEPT ![k] = <<>>]
    /\ co_top_items' = [co_top_items EXCEPT ![k] = <<>>]
    /\ co_overlapped' = (\E other \in Coroutines \ {k} : co_pc[other] = "fetch")
    /\ UNCHANGED <<dedup_vars, score_vars, agg_vars, now, call_vars, sched_vars,
                   item_vars, queue_vars>>

\* await source.fetch_trends(limit=limit) returns a list, which is appended
CoFetchReturns(k) ==
    /\ co_pc[k] = "fetch"
    /\ co_idx[k] \in DOMAIN source_order
    /\ \E items \in Lists(Feed(source_order[co_idx[k]]), MaxOverlapFetch) :
        co_all_items' = [co_all_items EXCEPT ![k] = extend(co_all_items[k], items)]
    /\ co_idx' = [co_idx EXCEPT ![k] = co_idx[k] + 1]
    /\ UNCHANGED <<co_pc, co_top_items, co_overlapped, dedup_vars, score_vars,
                   agg_vars, now, call_vars, sched_vars, item_vars, queue_vars>>

\* await source.fetch_trends(limit=limit) raises: the except clause logs it
CoFetchRaises(k) ==
    /\ co_pc[k] = "fetch"
    /\ co_idx[k] \in DOMAIN source_order
    /\ co_idx' = [co_idx EXCEPT ![k] = co_idx[k] + 1]
    /\ UNCHANGED <<co_pc, co_all_items, co_top_items, co_overlapped, dedup_vars,
                   score_vars, agg_vars, now, call_vars, sched_vars, item_vars,
                   queue_vars>>

\* a cycle whose deduplicate compares with the records of this cycle only
CoFinishComparingOwnBatch(k) ==
    /\ co_pc[k] = "fetch"
    /\ co_idx[k] > Len(source_order)
    /\ co_pc' = [co_pc EXCEPT ![k] = "done"]
    /\ IF co_all_items[k] = <<>>
       THEN /\ co_top_items' = [co_top_items EXCEPT ![k] = <<>>]
            /\ UNCHANGED <<seen_hashes, hist_fps>>
       ELSE \E r \in {deduplicate(co_all_items[k], {})} :
                \E clocks \in ClockReadings(now, Len(r.unique_items)) :
                    /\ seen_hashes' = seen_hashes \cup r.seen_hashes
                    /\ hist_fps' = hist_fps \cup Fps(co_all_items[k])
                    /\ co_top_items' = [co_top_items EXCEPT ![k] =
                           slice_to(calculate_scores(r.unique_items, clocks),
                                    scheduler_limit)]
    /\ UNCHANGED <<co_idx, co_all_items, co_overlapped, now,
                   dd_op, dd_in, dd_out, dd_seen_before, dd_again, dd_clear_between,
                   hist_fps_before, hist_keys_before, hist_keys, emitted, emitted_again,
                   score_vars, agg_vars, call_vars, sched_vars, item_vars, queue_vars>>

\* the rest of a cycle after its last await, lines 59 to 77 of aggregate_trends,
\* which hold no await: the empty check, deduplicate, calculate_scores with
\* any clock readings from now on, the slice and the return
CoFinish(k) ==
    /\ co_pc[k] = "fetch"
    /\ co_idx[k] > Len(source_order)
    /\ co_pc' = [co_pc EXCEPT ![k] = "done"]
    /\ IF co_all_items[k] = <<>>
       THEN /\ co_top_items' = [co_top_items EXCEPT ![k] = <<>>]
            /\ UNCHANGED <<seen_hashes, hist_fps>>
       ELSE \E r \in {deduplicate(co_all_items[k], seen_hashes)} :
                \E clocks \in ClockReadings(now, Len(r.unique_items)) :
                    /\ seen_hashes' = r.seen_hashes
                    /\ hist_fps' = hist_fps \cup Fps(co_all_items[k])
                    /\ co_top_items' = [co_top_items EXCEPT ![k] =
                           slice_to(calculate_scores(r.unique_items, clocks),
                                    scheduler_limit)]
    /\ UNCHANGED <<co_idx, co_all_items, co_overlapped, now,
                   dd_op, dd_in, dd_out, dd_seen_before, dd_again, dd_clear_between,
                   hist_fps_before, hist_keys_before, hist_keys, emitted, emitted_again,
                   score_vars, agg_vars, call_vars, sched_vars, item_vars, queue_vars>>

NextOverlap ==
    \E k \in Coroutines :
        CoStart(k) \/ CoFetchReturns(k) \/ CoFetchRaises(k) \/ CoFinish(k)

SpecOverlap == Init /\ [][NextOverlap]_vars

(***************************************************************************)
(* TrendScheduler: the hourly job and the instances of                     *)
(* _collect_and_post_trends it starts                                      *)
(***************************************************************************)
MaxSkipped == 2

\* scheduler.add_job(...) names no max_instances: the scheduler runs at most
\* this many instances of the job side by side
max_instances == 1

\* TrendScheduler._is_quiet_hours
is_quiet_hours(current_hour) == current_hour >= 23 \/ current_hour < 7

RemoveAt(list, i) == SubSeq(list, 1, i - 1) \o SubSeq(list, i + 1, Len(list))

\* TrendScheduler.start
SchedulerStart ==
    /\ ~sched_started
    /\ sched_started' = TRUE
    /\ UNCHANGED <<job_instances, job_skipped, wall_hour,
                   dedup_vars, score_vars, agg_vars, now, call_vars, item_vars,
                   co_vars, queue_vars>>

\* a scheduler that starts an instance at every run time
IntervalElapsesStartingAlways(j) ==
    /\ sched_started
    /\ wall_hour' = (wall_hour + 1) % 24
    /\ job_instances' = [job_instances EXCEPT ![j] = Append(job_instances[j], "start")]
    /\ UNCHANGED <<sched_started, job_skipped,
                   dedup_vars, score_vars, agg_vars, now, call_vars, item_vars,
                   co_vars, queue_vars>>

\* IntervalTrigger(hours=1): the next run time of the job has come; an instance
\* is started unless max_instances of them are running, and then the run is
\* skipped
IntervalElapses(j) ==
    /\ sched_started
    /\ wall_hour' = (wall_hour + 1) % 24
    /\ IF Len(job_instances[j]) < max_instances
       THEN /\ job_instances' = [job_instances EXCEPT ![j] = Append(job_instances[j], "start")]
            /\ UNCHANGED job_skipped
       ELSE /\ job_skipped' = [job_skipped EXCEPT ![j] = Min2(job_skipped[j] + 1, MaxSkipped)]
            /\ UNCHANGED job_instances
    /\ UNCHANGED <<sched_started, dedup_vars, score_vars, agg_vars, now, call_vars, item_vars,
                   co_vars, queue_vars>>

\* the instance i of the hourly job goes on to the step `step`, or returns
CycleGoesTo(i, step) ==
    /\ job_instances' =
          [job_instances EXCEPT !["hourly_trend_posting"] =
              IF step = "return" THEN RemoveAt(@, i) ELSE [@ EXCEPT ![i] = step]]
    /\ UNCHANGED <<sched_started, job_skipped, wall_hour,
                   dedup_vars, score_vars, agg_vars, now, call_vars, item_vars,
                   co_vars, queue_vars>>

\* _collect_and_post_trends: the quiet hours check, then the call of
\* aggregator.aggregate_trends(limit=1)
CycleStarts(i) ==
    /\ i \in DOMAIN job_instances["hourly_trend_posting"]
    /\ job_instances["hourly_trend_posting"][i] = "start"
    /\ CycleGoesTo(i, IF is_quiet_hours(wall_hour) THEN "return" ELSE "aggregate")

\* await self.aggregator.aggregate_trends(limit=1) returns no trend or one
CycleAggregated(i) ==
    /\ i \in DOMAIN job_instances["hourly_trend_posting"]
    /\ job_instances["hourly_trend_posting"][i] = "aggregate"
    /\ \E found \in 0..1 : CycleGoesTo(i, IF found = 0 THEN "return" ELSE "generate")

\* await self.ai_generator.generate_tweet_content(trend) returns
CycleGenerated(i) ==
    /\ i \in DOMAIN job_instances["hourly_trend_posting"]
    /\ job_instances["hourly_trend_posting"][i] = "generate"
    /\ CycleGoesTo(i, "publish")

\* await self.publisher.publish_tweet(tweet_content) returns a result
CyclePublished(i) ==
    /\ i \in DOMAIN job_instances["hourly_trend_posting"]
    /\ job_instances["hourly_trend_posting"][i] = "publish"
    /\ \E success \in BOOLEAN : CycleGoesTo(i, IF success THEN "save" ELSE "return")

\* await self._save_tweet_to_db(...) returns
CycleSaved(i) ==
    /\ i \in DOMAIN job_instances["hourly_trend_posting"]
    /\ job_instances["hourly_trend_posting"][i] = "save"
    /\ CycleGoesTo(i, "return")

\* an await raises: the except clause logs the error and the instance returns
CycleRaises(i) ==
    /\ i \in DOMAIN job_instances["hourly_trend_posting"]
    /\ job_instances["hourly_trend_posting"][i] \in {"aggregate", "generate", "publish"}
    /\ CycleGoesTo(i, "return")

NextScheduler ==
    \/ SchedulerStart
    \/ \E j \in JobIds : IntervalElapses(j)
    \/ \E i \in 1..(max_instances + 1) :
          \/ CycleStarts(i)
          \/ CycleAggregated(i)
          \/ CycleGenerated(i)
          \/ CyclePublished(i)
          \/ CycleSaved(i)
          \/ CycleRaises(i)

SpecScheduler == Init /\ [][NextScheduler]_vars


(***************************************************************************)
(* TrendScheduler: the post queue.  _process_trend_item adds rows,         *)
(* _process_post_queue is run by the interval job, one instance at a time  *)
(***************************************************************************)
MaxQueue == 2

MaxAttempts == 2

\* settings.rate_limit.posts_per_hour, the limit of the query of a pass
posts_per_hour == 1

\* _calculate_next_post_time: the next interval, or the end of quiet hours
PostDelays == {1, 2}

\* what await self.publisher.publish_tweet(content) does: it returns a
\* result with success set or not set, or it raises
PublishOutcomes == {"success", "failure", "raised"}

\* the rows the query of a pass matches at clock reading t
ReadyRows(t) ==
    {i \in DOMAIN post_queue :
        post_queue[i].scheduled_at <= t /\ post_queue[i].status = "pending"}

\* .limit(n).all() with no ORDER BY: any n of the matching rows, or all of
\* them when they are fewer
LimitAll(rows, n) ==
    {chosen \in SUBSET rows :
        Cardinality(chosen) = (IF Cardinality(rows) < n THEN Cardinality(rows) ELSE n)}

\* the exit of the with block of _process_post_queue: session.commit()
\* writes the status of the row objects of this pass to the table
CommitPass(statuses) ==
    [i \in DOMAIN post_queue |->
        IF i \in DOMAIN statuses
        THEN [post_queue[i] EXCEPT !.status = statuses[i]]
        ELSE post_queue[i]]

\* the status a row has for the program: that of its row object while a pass
\* holds one, else that of the table
StatusOf(i) ==
    IF pass_pc = "loop" /\ i \in DOMAIN pass_status
    THEN pass_status[i]
    ELSE post_queue[i].status

\* _process_trend_item adds PostQueue(tweet_content_id, scheduled_at) with the
\* default status and commits
AddToPostQueue ==
    /\ Len(post_queue) < MaxQueue
    /\ \E d \in PostDelays :
        post_queue' = Append(post_queue, [status |-> "pending", scheduled_at |-> now + d])
    /\ publish_log' = Append(publish_log, <<>>)
    /\ UNCHANGED <<pass_pc, pass_ready, pass_status, handed, dedup_vars, score_vars,
                   agg_vars, now, call_vars, sched_vars, item_vars, co_vars>>

\* _process_post_queue up to its first await: the query; with no ready row
\* it returns, else the loop over ready_items begins
ProcessPostQueueStarts ==
    /\ pass_pc = "idle"
    /\ IF ReadyRows(now) = {}
       THEN UNCHANGED <<pass_pc, pass_ready, pass_status>>
       ELSE \E ready_items \in LimitAll(ReadyRows(now), posts_per_hour) :
               /\ pass_pc' = "loop"
               /\ pass_ready' = ready_items
               /\ pass_status' = [i \in ready_items |-> post_queue[i].status]
    /\ UNCHANGED <<post_queue, publish_log, handed, dedup_vars, score_vars, agg_vars,
                   now, call_vars, sched_vars, item_vars, co_vars>>

\* a _post_queue_item that leaves the status of the row as it was
PostQueueItemNotMarking(queue_item, found, outcome) ==
    /\ pass_pc = "loop"
    /\ queue_item \in pass_ready
    /\ found \/ outcome = "raised"
    /\ outcome = "raised" => Len(publish_log[queue_item]) + 1 < MaxAttempts
    /\ pass_ready' = pass_ready \ {queue_item}
    /\ IF found
       THEN /\ handed' = [status |-> pass_status[queue_item],
                          due |-> post_queue[queue_item].scheduled_at <= now]
            /\ publish_log' = [publish_log EXCEPT ![queue_item] = Append(@, outcome)]
       ELSE UNCHANGED <<handed, publish_log>>
    /\ IF pass_ready' = {}
       THEN /\ post_queue' = CommitPass(pass_status)
            /\ pass_pc' = "idle"
            /\ pass_status' = <<>>
       ELSE UNCHANGED <<post_queue, pass_pc, pass_status>>
    /\ UNCHANGED <<dedup_vars, score_vars, agg_vars, now, call_vars, sched_vars,
                   item_vars, co_vars>>

\* one turn of the loop of _process_post_queue: _post_queue_item(queue_item).
\* Without its tweet content the row is logged and left.  Else the row is
\* handed to publish_tweet; a result sets the status of the row object to
\* "posted" or "failed", an exception is logged and leaves it.  After the
\* last row the with block of the pass exits and commits the row objects.
PostQueueItem(queue_item, found, outcome) ==
    /\ pass_pc = "loop"
    /\ queue_item \in pass_ready
    /\ found \/ outcome = "raised"
    /\ outcome = "raised" => Len(publish_log[queue_item]) + 1 < MaxAttempts
    /\ pass_ready' = pass_ready \ {queue_item}
    /\ IF found
       THEN /\ handed' = [status |-> pass_status[queue_item],
                          due |-> post_queue[queue_item].scheduled_at <= now]
            /\ publish_log' = [publish_log EXCEPT ![queue_item] = Append(@, outcome)]
       ELSE UNCHANGED <<handed, publish_log>>
    /\ \E statuses \in {IF ~found \/ outcome = "raised" THEN pass_status
                        ELSE [pass_status EXCEPT ![queue_item] =
                                 IF outcome = "success" THEN "posted" ELSE "failed"]} :
        IF pass_ready' = {}
        THEN /\ post_queue' = CommitPass(statuses)
             /\ pass_pc' = "idle"
             /\ pass_status' = <<>>
        ELSE /\ pass_status' = statuses
             /\ UNCHANGED <<post_queue, pass_pc>>
    /\ UNCHANGED <<dedup_vars, score_vars, agg_vars, now, call_vars, sched_vars,
                   item_vars, co_vars>>

NextQueue ==
    \/ AddToPostQueue
    \/ ProcessPostQueueStarts
    \/ \E queue_item \in 1..MaxQueue, found \in BOOLEAN, outcome \in PublishOutcomes :
        PostQueueItem(queue_item, found, outcome)
    \/ Tick

SpecQueue == Init /\ [][NextQueue]_vars

\* the lists the fetches of sources 1..n returned, one after the other
RECURSIVE ConcatReturned(_)
ConcatReturned(n) ==
    IF n = 0 THEN <<>>
    ELSE ConcatReturned(n - 1)
         \o (IF fetched[n].status = "returned" THEN fetched[n].items ELSE <<>>)

NumSources == Len(source_order)

\* C1: for every limit >= 1 and every outcome of the fetches, aggregate_trends
\* returns at most limit records, of pairwise different fingerprints, that
\* carry the scores the scorer assigned and are sorted by descending score.
C1_AtMostLimitDistinctScoredSorted ==
    pc = "done" =>
        /\ Len(top_items) <= limit
        /\ \A k, m \in DOMAIN top_items :
              k # m => generate_item_hash(top_items[k]) # generate_item_hash(top_items[m])
        /\ \A k, m \in DOMAIN top_items : k < m => ~ScoreLess(top_items[k], top_items[m])
        /\ \A k \in DOMAIN top_items : \E m \in DOMAIN sc_out : top_items[k] = sc_out[m]

\* a cycle that fetched duplicates and more different records than the limit
C1_Witness ==
    /\ pc = "done"
    /\ Len(top_items) = limit
    /\ Len(unique_items) > limit
    /\ Len(all_items) > Len(unique_items)

\* C2: a fetch that raises does not abort the cycle: nothing raises out of
\* aggregate_trends, the loop goes on to the next source, exactly the records
\* the successful fetches returned are handed to deduplicate and none of the
\* failing source, and the next cycle fetches the failing source again.
C2_FailingSourceIsSkippedForThisCycle ==
    /\ pc # "raised"
    /\ \A i \in DOMAIN source_order : (fetched[i].status # "pending") <=> (i < src_idx)
    /\ all_items = ConcatReturned(NumSources)
    /\ dd_op = "deduplicate" => dd_in = ConcatReturned(NumSources)
    /\ pc \in {"score", "top", "done"} =>
          \A i \in prev_raised : fetched[i].status # "pending"

\* a cycle ends with records although the source that had raised in the cycle
\* before raised again with a record collected
C2_Witness ==
    /\ pc = "done"
    /\ top_items # <<>>
    /\ \E i \in prev_raised : fetched[i].status = "raised" /\ fetched[i].items # <<>>
    /\ \E i \in DOMAIN source_order :
          fetched[i].status = "returned" /\ fetched[i].items # <<>>

\* the first n records of a list
FirstN(list, n) == [k \in 1..(IF n < Len(list) THEN n ELSE Len(list)) |-> list[k]]

\* C8: when a record was fetched, aggregate_trends(limit) returns the first
\* limit entries of calculate_scores(deduplicate(C)), C being the lists of the
\* successful fetches in the order of the source map.
C8_ResultIsTopOfScoredDeduplicated ==
    (pc = "done" /\ ConcatReturned(NumSources) # <<>>) =>
        top_items =
            FirstN(calculate_scores(
                       deduplicate(ConcatReturned(NumSources), dd_seen_before).unique_items,
                       sc_clock),
                   limit)

\* both sources returned records, duplicates were dropped, the rest was
\* reordered by score and cut to the limit
C8_Witness ==
    /\ pc = "done"
    /\ \A i \in DOMAIN source_order :
          fetched[i].status = "returned" /\ fetched[i].items # <<>>
    /\ Len(all_items) > Len(unique_items)
    /\ Len(unique_items) > Len(top_items)
    /\ top_items[1].external_id # unique_items[1].external_id

\* C9: if every fetch raises or returns an empty list, aggregate_trends returns
\* an empty list and raises no error.
C9_EmptyWhenNothingFetched ==
    /\ pc # "raised"
    /\ (pc = "done" /\ \A i \in DOMAIN source_order :
                           \/ fetched[i].status = "raised"
                           \/ fetched[i] = Returned(<<>>))
          => (top_items = <<>> /\ dd_op = "init" /\ sc_op = "init")

\* one source raised and the other returned an empty list
C9_Witness ==
    /\ pc = "done"
    /\ \E i, j \in DOMAIN source_order :
          fetched[i].status = "raised" /\ fetched[j] = Returned(<<>>)
    /\ top_items = <<>>

\* the records of items at the positions in keep, in their order
RECURSIVE SubseqAt(_, _, _)
SubseqAt(items, keep, i) ==
    IF i > Len(items) THEN <<>>
    ELSE (IF i \in keep THEN <<items[i]>> ELSE <<>>) \o SubseqAt(items, keep, i + 1)

\* C3: a deduplicate call emits exactly the records whose fingerprint is neither
\* in the persistent set at the start of the call nor the fingerprint of a
\* record earlier in the same input list; it drops every other record.
C3_EmitsExactlyTheNewFingerprints ==
    dd_op # "init" =>
        dd_out = SubseqAt(dd_in,
            {j \in DOMAIN dd_in :
                /\ generate_item_hash(dd_in[j]) \notin dd_seen_before
                /\ \A i \in 1..(j - 1) :
                      generate_item_hash(dd_in[i]) # generate_item_hash(dd_in[j])},
            1)

\* on an instance that has seen records, a call drops its second record for
\* the equal fingerprint of its first, a different record
C3_Witness ==
    /\ dd_op = "deduplicate"
    /\ Len(dd_in) = 2
    /\ dd_in[1] # dd_in[2]
    /\ generate_item_hash(dd_in[1]) = generate_item_hash(dd_in[2])
    /\ generate_item_hash(dd_in[1]) \notin dd_seen_before
    /\ dd_seen_before # {}
    /\ dd_out = <<dd_in[1]>>

\* C4: with no clear_cache in between, every fingerprint is emitted at most
\* once over all deduplicate calls of one instance: a record whose fingerprint
\* was in an earlier batch is never emitted by a later call.
C4_FingerprintEmittedAtMostOnce ==
    /\ emitted_again = {}
    /\ Fps(dd_out) \cap hist_fps_before = {}

\* a later call is handed a record whose fingerprint was in an earlier batch
C4_Witness ==
    /\ dd_op = "deduplicate"
    /\ Fps(dd_in) \cap hist_fps_before # {}
    /\ dd_out # <<>>
    /\ Len(dd_out) < Len(dd_in)

\* C5 as amended: deduplicate called on the list the previous call on the same
\* instance returned gives the empty list, every fingerprint of that list
\* being persisted; it gives that list back when clear_cache ran in between.
C5_SecondCallOnResult ==
    dd_again => IF dd_clear_between THEN dd_out = dd_in ELSE dd_out = <<>>

\* the second call is handed a non-empty first result
C5_Witness ==
    /\ dd_again
    /\ ~dd_clear_between
    /\ dd_in # <<>>
    /\ dd_out = <<>>

\* C5 as stated: dedupe(dedupe(X)) == dedupe(X) on one instance, the second
\* call removing nothing.
C5_Idempotent ==
    (dd_again /\ ~dd_clear_between) => dd_out = dd_in

\* C10: two records are duplicates of each other exactly when their normalized
\* titles and their urls (absent taken as empty) are equal, whatever their
\* source and external_id: a call emits exactly the records whose (normalized
\* title, url) pair is new.
C10_DuplicateIffSameTitleAndUrl ==
    dd_op # "init" =>
        dd_out = SubseqAt(dd_in,
            {j \in DOMAIN dd_in :
                /\ content_key(dd_in[j]) \notin hist_keys_before
                /\ \A i \in 1..(j - 1) :
                      content_key(dd_in[i]) # content_key(dd_in[j])},
            1)

\* one call keeps two records of equal normalized title and different url, after
\* an earlier call kept a record of another source with that title
C10_Witness ==
    /\ dd_op = "deduplicate"
    /\ Len(dd_in) = 2
    /\ normalized_titles[dd_in[1].title] = normalized_titles[dd_in[2].title]
    /\ url_or_empty(dd_in[1].url) # url_or_empty(dd_in[2].url)
    /\ dd_out = dd_in
    /\ hist_keys_before # {}

\* x.score = y.score
ScoreEqual(x, y) == x.score.num * y.score.den = y.score.num * x.score.den

\* the position in the scored list of the record calculate_scores returned at k
InputPosition(k) ==
    CHOOSE i \in DOMAIN sc_in : [sc_out[k] EXCEPT !.score = sc_in[i].score] = sc_in[i]

C7_SortedDescendingAndStable ==
    \A k, m \in DOMAIN sc_out :
        k < m =>
            /\ ~ScoreLess(sc_out[k], sc_out[m])
            /\ ScoreEqual(sc_out[k], sc_out[m]) => InputPosition(k) < InputPosition(m)

\* two records of equal score follow a record of higher score that the input
\* list had between them
C7_Witness ==
    /\ sc_op = "calculate_scores"
    /\ Len(sc_out) = 3
    /\ ScoreLess(sc_out[2], sc_out[1])
    /\ ScoreEqual(sc_out[2], sc_out[3])
    /\ InputPosition(1) = 2
    /\ InputPosition(2) = 1
    /\ InputPosition(3) = 3

\* C11: the list deduplicate returns is a subsequence of its input: the records
\* at some positions of the input, unchanged in every field, in input order.
C11_OutputIsSubsequenceOfInput ==
    dd_op # "init" =>
        \E keep \in SUBSET (DOMAIN dd_in) : dd_out = SubseqAt(dd_in, keep, 1)

\* a call drops its first record, seen by an earlier call, and returns its
\* second, a different record
C11_Witness ==
    /\ dd_op = "deduplicate"
    /\ Len(dd_in) = 2
    /\ dd_in[1] # dd_in[2]
    /\ dd_out = <<dd_in[2]>>

\* C13: clear_cache leaves the persistent set empty whatever was called before;
\* the deduplicate call after it returns what a fresh instance returns, so a
\* record emitted before the clear is emitted again; and a deduplicate call on
\* a non-empty batch of unseen records leaves the set non-empty.
C13_ClearCacheResetsTheInstance ==
    /\ dd_op = "clear_cache" => seen_hashes = {}
    /\ (dd_op = "deduplicate" /\ dd_clear_between) =>
          /\ dd_seen_before = {}
          /\ dd_out = deduplicate(dd_in, {}).unique_items
          /\ dd_again => dd_out = dd_in
    /\ (dd_op = "deduplicate" /\ dd_in # <<>> /\ Fps(dd_in) \cap dd_seen_before = {}) =>
          seen_hashes # {}

\* the call after a clear_cache is handed the two records the call before the
\* clear had emitted, and emits them again
C13_Witness ==
    /\ dd_op = "deduplicate"
    /\ dd_clear_between
    /\ dd_again
    /\ Len(dd_in) = 2
    /\ dd_out = dd_in
    /\ seen_hashes = Fps(dd_in)

\* C12: a step changes the persistent set of a deduplicate call only when the
\* call is past its last record, and then adds exactly the fingerprints of the
\* records the call emits, all in that one step: while records are examined
\* the set stays as it is, and no state holds a part of a batch.
C12_MergedInOneStepAfterTheLoop ==
    [][seen_hashes' # seen_hashes =>
          \E c \in Callers :
              /\ call_pc[c] = "loop"
              /\ call_pos[c] > Len(call_items[c])
              /\ call_pc'[c] = "returned"
              /\ call_unique_items'[c] = call_unique_items[c]
              /\ seen_hashes' = seen_hashes \cup Fps(call_unique_items[c])]_vars

\* a call has emitted two records and merged both fingerprints while the other
\* call is in its loop, one record examined
C12_Witness ==
    \E c, d \in Callers :
        /\ call_pc[c] = "returned"
        /\ Len(call_unique_items[c]) = 2
        /\ Fps(call_unique_items[c]) \subseteq seen_hashes
        /\ call_pc[d] = "loop"
        /\ call_pos[d] = 2

\* C14: no two instances of _collect_and_post_trends run at the same time: a
\* run time that comes while an instance is running starts none, so no two
\* aggregate_trends calls of the scheduler are in progress together.
C14_CyclesNeverOverlap ==
    /\ Len(job_instances["hourly_trend_posting"]) <= 1
    /\ Cardinality({i \in DOMAIN job_instances["hourly_trend_posting"] :
                       job_instances["hourly_trend_posting"][i] = "aggregate"}) <= 1

\* a run time has come and was skipped while an instance is inside
\* aggregate_trends
C14_Witness ==
    /\ job_skipped["hourly_trend_posting"] > 0
    /\ job_instances["hourly_trend_posting"] = <<"aggregate">>

\* C15: when the raw scores of a non-empty batch are all equal, as they are in
\* every batch of one record, calculate_scores sets every score to exactly 0.5.
C15_EqualRawScoresGiveOneHalf ==
    (sc_op = "calculate_scores" /\ \A i, j \in DOMAIN sc_raw : sc_raw[i] = sc_raw[j]) =>
        \A k \in DOMAIN sc_out : 2 * sc_out[k].score.num = sc_out[k].score.den

\* a batch of two different records of equal raw score
C15_Witness ==
    /\ sc_op = "calculate_scores"
    /\ Len(sc_in) = 2
    /\ sc_in[1].source # sc_in[2].source \/ sc_in[1].created_at # sc_in[2].created_at
    /\ sc_raw[1] = sc_raw[2]
    /\ \A k \in DOMAIN sc_out : sc_out[k].score = [num |-> 1, den |-> 2]

C17_RawScoreIsCappedWeightedSum ==
    probe_op = "calculate_item_score" =>
        /\ probe_locals.relevance_bonus =
              Min2(Tenth(2), (IF probe_item.is_turkey_related THEN Tenth(1) ELSE 0)
                             + (IF probe_item.is_global THEN Hundredth(5) ELSE 0))
        /\ probe_locals.score =
              Min2(RawOne, 3 * probe_locals.recency_score
                           + 2 * probe_locals.source_authority
                           + 2 * probe_locals.social_volume_score
                           + 2 * probe_locals.relevance_bonus
                           + probe_locals.title_quality)

\* a record with both flags, full recency and volume and the highest authority
C17_Witness ==
    /\ probe_op = "calculate_item_score"
    /\ probe_item.is_turkey_related
    /\ probe_item.is_global
    /\ probe_locals.relevance_bonus = Hundredth(15)
    /\ probe_locals.recency_score = SubOne
    /\ probe_locals.social_volume_score = SubOne
    /\ probe_locals.source_authority = Tenth(9)
    /\ probe_locals.title_quality = Tenth(9)
    /\ probe_locals.score = 3 * SubOne + 2 * Tenth(9) + 2 * SubOne + 2 * Hundredth(15) + Tenth(9)

\* C18: the recency sub-score is 1.0 for an age of at most one hour, a
\* negative age included, 0.1 for an age of 24 hours or more and
\* max(0.1, 1.0 - (hours - 1) / 23) in between; it lies in [0.1, 1.0] and is
\* above 0.5 at an age of one hour.
C18_RecencyByAge ==
    LET age == probe_clock - probe_item.created_at
        recency == probe_locals.recency_score
    IN  probe_op = "calculate_item_score" =>
        /\ age <= 1 => recency = SubOne
        /\ age >= 24 => recency = Tenth(1)
        /\ (1 < age /\ age < 24) => recency = Max2(Tenth(1), SubOne - (age - 1) * 100)
        /\ Tenth(1) <= recency
        /\ recency <= SubOne
        /\ age = 1 => recency > Tenth(5)

\* a record whose created_at lies in the future
C18_Witness ==
    /\ probe_op = "calculate_item_score"
    /\ probe_clock - probe_item.created_at < 0
    /\ probe_locals.recency_score = SubOne

\* C19: of two records of one batch that differ in created_at alone, the one
\* created later gets a recency sub-score and a raw score at least as high.
C19_LaterCreatedScoresAtLeastAsHigh ==
    \A i, j \in DOMAIN sc_raw :
        (/\ sc_in[i].created_at > sc_in[j].created_at
         /\ [sc_in[i] EXCEPT !.created_at = sc_in[j].created_at] = sc_in[j]) =>
            /\ calculate_recency_score(sc_in[i], sc_clock[i])
                  >= calculate_recency_score(sc_in[j], sc_clock[j])
            /\ sc_raw[i] >= sc_raw[j]

\* C20: the authority sub-score is the score of the adapter the source map
\* holds under the source of the record, whatever the default table says;
\* without such an adapter it is the default of the table (google_trends 0.9,
\* reddit 0.8, twitter_trends 0.7, youtube_trending 0.6, rss 0.5), and 0.5 for
\* a source the table does not hold either.
C20_AuthorityFromMapThenTable ==
    LET source == probe_item.source
    IN  probe_op = "calculate_item_score" =>
        probe_locals.source_authority =
            IF source \in DOMAIN probe_sources THEN probe_sources[source]
            ELSE CASE source = "google_trends" -> Tenth(9)
                   [] source = "reddit" -> Tenth(8)
                   [] source = "twitter_trends" -> Tenth(7)
                   [] source = "youtube_trending" -> Tenth(6)
                   [] source = "rss" -> Tenth(5)
                   [] OTHER -> Tenth(5)

\* the adapter registered for reddit has another score than the table
C20_Witness ==
    /\ probe_op = "calculate_item_score"
    /\ probe_item.source = "reddit"
    /\ "reddit" \in DOMAIN probe_sources
    /\ probe_sources["reddit"] # authority_scores["reddit"]
    /\ probe_locals.source_authority = Tenth(5)

\* C24: deduplicate with an empty list returns an empty list and leaves the
\* persistent fingerprint set unchanged, whatever it contained.
C24_EmptyListIsReturnedSetUntouched ==
    (dd_op = "deduplicate" /\ dd_in = <<>>) =>
        /\ dd_out = <<>>
        /\ seen_hashes = dd_seen_before

\* deduplicate is called with an empty list on an instance that has seen two
\* fingerprints
C24_Witness ==
    /\ dd_op = "deduplicate"
    /\ dd_in = <<>>
    /\ dd_out = <<>>
    /\ Cardinality(dd_seen_before) = 2
    /\ seen_hashes = dd_seen_before

\* C29: after any sequence of deduplicate and clear_cache calls the persistent
\* set is exactly the set of the fingerprints of all records passed to
\* deduplicate since construction or the last clear_cache, which is the set of
\* the fingerprints of all records emitted since then; deduplicate removes no
\* fingerprint, so the set only grows between two clears.
C29_SetIsFingerprintsSinceLastClear ==
    /\ seen_hashes = hist_fps
    /\ seen_hashes = emitted
    /\ dd_op = "deduplicate" => dd_seen_before \subseteq seen_hashes

\* a call with no clear_cache before it is handed one seen and one unseen
\* record, and the set holds three fingerprints after it
C29_Witness ==
    /\ dd_op = "deduplicate"
    /\ ~dd_clear_between
    /\ Len(dd_in) = 2
    /\ Len(dd_out) = 1
    /\ dd_seen_before # {}
    /\ dd_seen_before # seen_hashes
    /\ Cardinality(seen_hashes) = 3
    /\ seen_hashes = hist_fps

\* C25: calculate_scores returns a permutation of its input records, none
\* added, dropped or duplicated, and changes no field of a record other than
\* its score.
C25_OutputIsPermutationOfInput ==
    /\ Len(sc_out) = Len(sc_in)
    /\ \E p \in Permutations(DOMAIN sc_in) :
          \A k \in DOMAIN sc_out :
              [sc_out[k] EXCEPT !.score = sc_in[p[k]].score] = sc_in[p[k]]

\* a batch of three comes back in another order, two of its records with equal
\* scores, every record with a new score
C25_Witness ==
    /\ sc_op = "calculate_scores"
    /\ Len(sc_in) = 3
    /\ Len(sc_out) = 3
    /\ {sc_out[k].external_id : k \in 1..3} = {sc_in[k].external_id : k \in 1..3}
    /\ sc_out[1].external_id # sc_in[1].external_id
    /\ ScoreEqual(sc_out[2], sc_out[3])
    /\ \A k \in 1..3 : sc_out[k] \notin Range(sc_in)

\* C22: the social-volume sub-score is 0 for every social_volume <= 0, lies in
\* [0, 1] otherwise, is non-decreasing in social_volume, and is 1.0 for every
\* social_volume >= 5000.
C22_VolumeScoreMonotoneAndCapped ==
    probe_op = "calculate_item_score" =>
        /\ probe_item.social_volume <= 0 => probe_locals.social_volume_score = 0
        /\ 0 <= probe_locals.social_volume_score
        /\ probe_locals.social_volume_score <= SubOne
        /\ probe_item.social_volume >= 5000 => probe_locals.social_volume_score = SubOne
        /\ \A v \in ProbeVolumes :
              v <= probe_item.social_volume =>
                  calculate_social_volume_score([probe_item EXCEPT !.social_volume = v])
                      <= probe_locals.social_volume_score

\* a record of a volume above 5000 is scored: its sub-score is 1.0, above the
\* sub-score of a volume of 1000, which is above that of 500, which is above 0
C22_Witness ==
    /\ probe_op = "calculate_item_score"
    /\ probe_item.social_volume > 5000
    /\ probe_locals.social_volume_score = SubOne
    /\ calculate_social_volume_score([probe_item EXCEPT !.social_volume = 1000]) < SubOne
    /\ calculate_social_volume_score([probe_item EXCEPT !.social_volume = 500])
          < calculate_social_volume_score([probe_item EXCEPT !.social_volume = 1000])
    /\ 0 < calculate_social_volume_score([probe_item EXCEPT !.social_volume = 500])
    /\ calculate_social_volume_score([probe_item EXCEPT !.social_volume = 0 - 1]) = 0

\* C21: the title-quality sub-score is 0.3 for every title shorter than 10
\* characters (the empty title too), 0.5 for every title longer than 200
\* characters, and otherwise 0.7 if the first character is uppercase, else
\* 0.5, plus 0.1 if the title contains '?', plus 0.1 if it contains a digit,
\* minus 0.1 if it has more than two '!' or more than two '?', clamped to
\* [0.0, 1.0].
C21_TitleQualityByLengthAndMarks ==
    probe_op = "calculate_title_quality_score" =>
        LET text == probe_item.title
            base == IF IsUpper(text[1]) THEN Tenth(7) ELSE Tenth(5)
            question == IF \E i \in DOMAIN text : text[i] = "?" THEN Tenth(1) ELSE 0
            digit == IF \E i \in DOMAIN text : IsDigit(text[i]) THEN Tenth(1) ELSE 0
            penalty == IF Count(text, "!") > 2 \/ Count(text, "?") > 2
                       THEN Tenth(1) ELSE 0
        IN  /\ Len(text) < 10 => probe_locals.title_quality = Tenth(3)
            /\ Len(text) > 200 => probe_locals.title_quality = Tenth(5)
            /\ (Len(text) >= 10 /\ Len(text) <= 200) =>
                  probe_locals.title_quality =
                      Min2(Max2(base + question + digit - penalty, 0), SubOne)

\* the punctuation characters of the titles
PunctuationChars == {"!", "?", ":", "|"}

NotPunctuation(c) == c \notin PunctuationChars

\* the two texts differ in the case of letters only
SameButCase(t, u) ==
    /\ Len(t) = Len(u)
    /\ \A i \in DOMAIN t : t[i] = u[i] \/ UpperChar(t[i]) = u[i] \/ UpperChar(u[i]) = t[i]

\* ... in punctuation characters only
SameButPunctuation(t, u) == SelectSeq(t, NotPunctuation) = SelectSeq(u, NotPunctuation)

\* ... in the length of whitespace runs only
SameButWhitespaceRuns(t, u) == collapse_whitespace(t) = collapse_whitespace(u)

\* ... in stop words only
SameButStopWords(t, u) == SelectSeq(split(t), NotStopWord) = SelectSeq(split(u), NotStopWord)

\* lower-case tokens of word characters joined by single spaces, none of them a
\* stop word
IsNormalForm(text) ==
    /\ \A i \in DOMAIN text : text[i] = " " \/ (IsWord(text[i]) /\ ~IsUpper(text[i]))
    /\ text # <<>> => (text[1] # " " /\ text[Len(text)] # " ")
    /\ \A i \in 1..(Len(text) - 1) : ~(text[i] = " " /\ text[i + 1] = " ")
    /\ \A i \in DOMAIN split(text) : split(text)[i] \notin stop_words

\* C23: title normalization yields lower-case tokens of word characters joined
\* by single spaces with no stop-word token, and is invariant under changes of
\* letter case, insertion or removal of punctuation characters, the length of
\* whitespace runs and insertion or removal of stop words; 'Breaking: Major
\* NEWS!!!' normalizes to 'breaking major news', and deduplicate([R1, R2]) with
\* R1 titled 'Breaking: Major NEWS!!!' and R2 titled 'breaking major news', same
\* url, returns [R1] only.
C23_NormalizationInvariances ==
    dd_op = "deduplicate" =>
        /\ \A k \in DOMAIN dd_in :
              /\ IsNormalForm(normalized_titles[dd_in[k].title])
              /\ dd_in[k].title = TitleBreaking =>
                    normalized_titles[dd_in[k].title] = TitleBreakingLower
        /\ Len(dd_in) = 2 =>
              LET t == dd_in[1].title
                  u == dd_in[2].title
              IN  /\ (\/ SameButCase(t, u)
                      \/ SameButPunctuation(t, u)
                      \/ SameButWhitespaceRuns(t, u)
                      \/ SameButStopWords(t, u)) =>
                         /\ normalized_titles[t] = normalized_titles[u]
                         /\ dd_seen_before = {} => dd_out = <<dd_in[1]>>
                  /\ (t = TitleBreaking /\ u = TitleBreakingLower /\ dd_seen_before = {}) =>
                         dd_out = <<dd_in[1]>>

\* C26: the test of a fingerprint and its merge into the persistent set are
\* not one step for a batch: when two deduplicate calls on one instance run
\* interleaved record by record, a state is reached in which both calls have
\* emitted a record of the same fingerprint; when one call runs after the
\* other, no such state is reached.
C26_SameFingerprintTwiceOnlyWhenInterleaved ==
    \A c, d \in Callers :
        (/\ c # d
         /\ call_pc[c] = "returned"
         /\ call_pc[d] = "returned"
         /\ Fps(call_unique_items[c]) \cap Fps(call_unique_items[d]) # {}) =>
            (call_overlapped[c] /\ call_overlapped[d])

\* two calls whose loops ran side by side have both returned a record of the
\* same fingerprint
C26_Witness ==
    \E c, d \in Callers :
        /\ c # d
        /\ call_pc[c] = "returned"
        /\ call_pc[d] = "returned"
        /\ call_overlapped[c]
        /\ call_overlapped[d]
        /\ Fps(call_unique_items[c]) \cap Fps(call_unique_items[d]) # {}

\* C27: deduplicate records every fetched fingerprint before the list is cut to
\* the limit, so a record fetched in one aggregate_trends cycle is returned by
\* no later cycle of the same aggregator, even when the limit cut it from the
\* earlier result and it was never returned; a cycle whose sources return only
\* records fetched before returns an empty list.
C27_FetchedOnceNeverReturnedLater ==
    (pc = "done" /\ dd_op = "deduplicate") =>
        /\ Fps(top_items) \cap hist_fps_before = {}
        /\ Fps(all_items) \subseteq hist_fps_before => top_items = <<>>

\* a cycle has fetched only records fetched before, one of them never returned
\* by any cycle, and returns the empty list
C27_Witness ==
    /\ pc = "done"
    /\ dd_op = "deduplicate"
    /\ all_items # <<>>
    /\ Fps(all_items) \subseteq hist_fps_before
    /\ Fps(all_items) \ returned_fps # {}
    /\ top_items = <<>>

\* C28: when two aggregate_trends coroutines of one aggregator overlap on one
\* event loop, interleaving at the awaits of source.fetch_trends only, the
\* deduplicate step of each runs without suspension: no fingerprint is
\* returned by both cycles, and the persistent set ends up as the union of
\* what the cycles fetched.
C28_OverlappingCyclesShareNoFingerprint ==
    (\A k \in Coroutines : co_pc[k] = "done") =>
        /\ \A k, m \in Coroutines :
              k # m => Fps(co_top_items[k]) \cap Fps(co_top_items[m]) = {}
        /\ \A k \in Coroutines : Fps(co_all_items[k]) \subseteq seen_hashes
        /\ seen_hashes = hist_fps

\* two cycles that overlapped have fetched a record of the same fingerprint;
\* one of them returned it, the other returned another record
C28_Witness ==
    \E k, m \in Coroutines :
        /\ k # m
        /\ co_overlapped
        /\ co_pc[k] = "done"
        /\ co_pc[m] = "done"
        /\ \E fp \in Fps(co_all_items[k]) \cap Fps(co_all_items[m]) :
              /\ fp \in Fps(co_top_items[k])
              /\ fp \notin Fps(co_top_items[m])
        /\ co_top_items[m] # <<>>
        /\ seen_hashes = Fps(co_all_items[k]) \cup Fps(co_all_items[m])

====
